---- MODULE Spec2Model ----
(***************************************************************************)
(* Model of src/main.py: the CloudEvents handler procesar_archivo_gcs,     *)
(* which validates a Cloud Storage notification and forwards its metadata  *)
(* to an Apps Script web app with one requests.post call.                  *)
(*                                                                         *)
(* Python values are tagged records (t = "None" | "str" | "int"); a str is *)
(* a sequence of one-character strings so that startswith and int() are    *)
(* computed on the characters.  A dict key that is not present holds the   *)
(* marker Missing.                                                         *)
(***************************************************************************)
EXTENDS Integers, Sequences, FiniteSets, TLC

\* Number of handler invocations the runtime may run (concurrently).
NumInv == 2

Inv == 1..NumInv

-----------------------------------------------------------------------------
\* Python values

V(t, s, n) == [t |-> t, s |-> s, n |-> n]
None       == V("None", <<>>, 0)
Missing    == V("missing", <<>>, 0)
StrV(s)     == V("str", s, 0)
IntV(n)     == V("int", <<>>, n)

\* A presence test ("is not None") in place of the truth test.
TruthyPresent(v) == v.t \in {"str", "int"}

\* bool(x) for None, str and int; an absent key reads as None through dict.get
Truthy(v) ==
    CASE v.t = "str" -> v.s # <<>>
      [] v.t = "int" -> v.n # 0
      [] OTHER       -> FALSE

\* str.startswith
startswith(s, prefix) ==
    /\ Len(prefix) <= Len(s)
    /\ SubSeq(s, 1, Len(prefix)) = prefix

DigitChars == <<"0", "1", "2", "3", "4", "5", "6", "7", "8", "9">>
IsDigit(c) == \E k \in 1..Len(DigitChars) : DigitChars[k] = c
DigitVal(c) == (CHOOSE k \in 1..Len(DigitChars) : DigitChars[k] = c) - 1

RECURSIVE Strip(_)
Strip(s) ==
    IF s = <<>> THEN s
    ELSE IF Head(s) = " " THEN Strip(Tail(s))
    ELSE IF s[Len(s)] = " " THEN Strip(SubSeq(s, 1, Len(s) - 1))
    ELSE s

RECURSIVE DecVal(_)
DecVal(s) ==
    IF s = <<>> THEN 0
    ELSE DecVal(SubSeq(s, 1, Len(s) - 1)) * 10 + DigitVal(s[Len(s)])

\* A mis-conversion that maps a non-numeric string to 0 instead of raising.
PyIntLenient(v) ==
    IF v.t = "int" THEN [ok |-> TRUE, exc |-> "", n |-> v.n]
    ELSE IF v.t = "str" THEN
        LET body == Strip(v.s)
            neg  == body # <<>> /\ Head(body) = "-"
            dig  == IF body # <<>> /\ Head(body) \in {"-", "+"}
                    THEN Tail(body) ELSE body
        IN IF dig # <<>> /\ \A k \in 1..Len(dig) : IsDigit(dig[k])
           THEN [ok |-> TRUE, exc |-> "",
                 n |-> IF neg THEN 0 - DecVal(dig) ELSE DecVal(dig)]
           ELSE [ok |-> TRUE, exc |-> "", n |-> 0]
    ELSE [ok |-> FALSE, exc |-> "TypeError", n |-> 0]

\* int(x): the integer itself, the decimal value of a str (surrounding
\* blanks and one sign allowed), ValueError for any other str, TypeError
\* for None.
PyInt(v) ==
    IF v.t = "int" THEN [ok |-> TRUE, exc |-> "", n |-> v.n]
    ELSE IF v.t = "str" THEN
        LET body == Strip(v.s)
            neg  == body # <<>> /\ Head(body) = "-"
            dig  == IF body # <<>> /\ Head(body) \in {"-", "+"}
                    THEN Tail(body) ELSE body
        IN IF dig # <<>> /\ \A k \in 1..Len(dig) : IsDigit(dig[k])
           THEN [ok |-> TRUE, exc |-> "",
                 n |-> IF neg THEN 0 - DecVal(dig) ELSE DecVal(dig)]
           ELSE [ok |-> FALSE, exc |-> "ValueError", n |-> 0]
    ELSE [ok |-> FALSE, exc |-> "TypeError", n |-> 0]

-----------------------------------------------------------------------------
\* Module-level configuration

APPS_SCRIPT_WEB_APP_URL ==
    "https://script.google.com/macros/s/AKfycbw3ktuue6_x_SzbGFb58CS5nbttsLvpi5Nzd9fdPaM6egVlywNsll2UaTbwuFsIX8Re/exec"

\* os.environ.get('WEBHOOK_SECRET_TOKEN', '12345'): the fallback or the
\* value the environment provides.
TokenValues == { StrV(<<"1", "2", "3", "4", "5">>),
                 StrV(<<"s", "3", "c", "r", "3", "t">>) }

\* 10 * 1024 * 1024
LargeFileThreshold == 10 * 1024 * 1024

-----------------------------------------------------------------------------
\* Notification envelopes

Keys == {"bucket", "name", "size", "contentType", "metageneration"}

NoFields == [k \in Keys |-> Missing]

NoneData       == [kind |-> "None",  d |-> NoFields]
NonMappingData == [kind |-> "other", d |-> NoFields]
Dict(f)        == [kind |-> "dict",  d |-> f]

s_b1     == <<"b", "1">>
s_ftxt   == <<"f", ".", "t", "x", "t">>
s_0      == <<"0">>
s_1024   == <<"1", "0", "2", "4">>
s_abc    == <<"a", "b", "c">>
s_11M    == <<"1", "1", "0", "0", "0", "0", "0", "0">>
s_10MiB  == <<"1", "0", "4", "8", "5", "7", "6", "0">>
s_sp42   == <<" ", "4", "2">>
s_neg5   == <<"-", "5">>
s_text   == <<"t", "e", "x", "t", "/", "p", "l", "a", "i", "n">>
s_json   == <<"a", "p", "p", "l", "i", "c", "a", "t", "i", "o", "n", "/",
              "j", "s", "o", "n">>
s_png    == <<"i", "m", "a", "g", "e", "/", "p", "n", "g">>
s_textP  == <<"t", "e", "x", "t", "/">>
s_appP   == <<"a", "p", "p", "l", "i", "c", "a", "t", "i", "o", "n", "/">>
s_id     == <<"e", "1">>
s_type   == <<"f", "i", "n", "a", "l", "i", "z", "e", "d">>
s_time   == <<"2", "0", "2", "4", "-", "0", "1", "-", "0", "1", "T",
              "0", "0", ":", "0", "0", ":", "0", "0", "Z">>

Buckets == { Missing, StrV(<<>>), StrV(s_b1) }
Names   == { Missing, StrV(<<>>), StrV(s_ftxt) }
Sizes   == { Missing, None, StrV(<<>>), IntV(0), StrV(s_0), StrV(s_1024),
             StrV(s_abc), StrV(s_11M), IntV(11000000), StrV(s_10MiB),
             StrV(s_sp42), StrV(s_neg5) }
CTypes  == { Missing, StrV(<<>>), StrV(s_text), StrV(s_json), StrV(s_png),
             IntV(7) }
Metas   == { Missing, StrV(<<"1">>) }

DataBodies ==
    { NoneData, NonMappingData }
    \cup { Dict([bucket |-> b, name |-> n, size |-> s, contentType |-> c,
                 metageneration |-> m]) :
             b \in Buckets, n \in Names, s \in Sizes, c \in CTypes,
             m \in Metas }

Envelopes ==
    [ id   : { Missing, StrV(s_id) },
      type : { Missing, StrV(s_type) },
      time : { Missing, StrV(s_time) },
      data : DataBodies ]

NoEvent == [id |-> Missing, type |-> Missing, time |-> Missing,
            data |-> NoneData]

WellFormedData(s, c) ==
    Dict([bucket |-> StrV(s_b1), name |-> StrV(s_ftxt), size |-> s,
          contentType |-> c, metageneration |-> StrV(<<"1">>)])

Event(d) == [id |-> StrV(s_id), type |-> StrV(s_type), time |-> StrV(s_time),
             data |-> d]

\* A few envelopes for runs with several invocations in flight.
SomeEnvelopes ==
    { Event(WellFormedData(StrV(s_1024), StrV(s_text))),
      Event(WellFormedData(StrV(s_11M), StrV(s_png))),
      Event(WellFormedData(StrV(s_abc), StrV(s_text))),
      Event(WellFormedData(IntV(0), StrV(s_text))),
      Event(WellFormedData(StrV(s_0), StrV(s_text))),
      Event(NoneData),
      [Event(WellFormedData(StrV(s_1024), StrV(s_text))) EXCEPT !.id = Missing] }

-----------------------------------------------------------------------------
\* What the webhook call can come back with

Status(n)  == [kind |-> "status", status |-> n, exc |-> ""]
Raises(x)  == [kind |-> "exc", status |-> 0, exc |-> x]
NoResponse == [kind |-> "none", status |-> 0, exc |-> ""]

Statuses  == {100, 101, 200, 201, 204, 299, 300, 304, 399, 400, 404, 499,
              500, 503, 599}
Responses == { Status(n) : n \in Statuses }
             \cup { Raises("Timeout"), Raises("ConnectionError") }

SomeResponses == { Status(200), Status(304), Status(500), Raises("Timeout") }

\* The mis-reading that only server errors raise.
raise_for_status_5xx(status) == 500 <= status /\ status < 600

\* Response.raise_for_status(): HTTPError for 4xx and 5xx
raise_for_status(status) == 400 <= status /\ status < 600

-----------------------------------------------------------------------------
\* State

VARIABLES
    WEBHOOK_SECRET_TOKEN,  \* module global, read once at import
    pc,                    \* pc[i]: where invocation i is
    cloud_event,           \* cloud_event[i]: the envelope invocation i got
    log,                   \* log[i]: the lines invocation i logged, in order
    posts,                 \* posts[i]: the requests.post calls i has made
    response               \* response[i]: what the call came back with

vars == <<WEBHOOK_SECRET_TOKEN, pc, cloud_event, log, posts, response>>

Line(level, msg) == [level |-> level, msg |-> msg]

\* dict.get(key): None when the key is absent
get(d, key) == IF d[key] = Missing THEN None ELSE d[key]

\* "not data or not isinstance(data, dict)"
InvalidData(data) ==
    \/ data.kind # "dict"
    \/ \A k \in Keys : data.d[k] = Missing

\* "not all([bucket_name, file_name, file_size, content_type])"
MissingEssential(data) ==
    ~ \A k \in {"bucket", "name", "size", "contentType"} :
          Truthy(get(data.d, k))

\* json.dumps of one value: a str becomes a JSON string, an int a JSON
\* number, None becomes null
JsonOf(v) ==
    CASE v.t = "str" -> [json |-> "string", s |-> v.s, n |-> 0]
      [] v.t = "int" -> [json |-> "number", s |-> <<>>, n |-> v.n]
      [] OTHER       -> [json |-> "null",   s |-> <<>>, n |-> 0]

\* json.dumps of a dict: its members in insertion order
RECURSIVE json_dumps(_)
json_dumps(d) ==
    IF d = <<>> THEN <<>>
    ELSE <<[key |-> Head(d).key, value |-> JsonOf(Head(d).value)]>>
         \o json_dumps(Tail(d))

\* A payload that carries the converted size instead of the received one.
PayloadParsed(file_name, bucket_name, file_size, content_type, timestamp) ==
    << [key |-> "fileName",    value |-> file_name],
       [key |-> "bucketName",  value |-> bucket_name],
       [key |-> "fileSize",    value |-> IntV(PyInt(file_size).n)],
       [key |-> "contentType", value |-> content_type],
       [key |-> "timeCreated", value |-> timestamp],
       [key |-> "source",      value |-> StrV(<<"CloudStorage">>)] >>

\* payload = {...}
Payload(file_name, bucket_name, file_size, content_type, timestamp) ==
    << [key |-> "fileName",    value |-> file_name],
       [key |-> "bucketName",  value |-> bucket_name],
       [key |-> "fileSize",    value |-> file_size],
       [key |-> "contentType", value |-> content_type],
       [key |-> "timeCreated", value |-> timestamp],
       [key |-> "source",      value |-> StrV(<<"CloudStorage">>)] >>

\* headers = {"Content-Type": "application/json"}
Headers == { <<"Content-Type", "application/json">> }

\* params = {"token": WEBHOOK_SECRET_TOKEN}
Params(token) == { <<"token", token>> }

\* Advisory checks that reject the file instead of only warning.
TryBodyReject(file_size, content_type) ==
    LET r == PyInt(file_size) IN
    IF ~ r.ok THEN [exc |-> r.exc, warns |-> <<>>]
    ELSE IF content_type.t # "str"
    THEN [exc |-> "AttributeError", warns |-> <<>>]
    ELSE
        LET odd == /\ ~ startswith(content_type.s, s_textP)
                   /\ ~ startswith(content_type.s, s_appP)
            big == r.n > LargeFileThreshold
        IN [exc   |-> IF odd \/ big THEN "ValueError" ELSE "",
            warns |-> (IF odd THEN <<Line("WARNING", "unexpected_content_type")>>
                       ELSE <<>>)
                      \o (IF big THEN <<Line("WARNING", "large_file")>>
                          ELSE <<>>)]

\* The try block up to the call: the conversion of the size, then the two
\* advisory checks.  exc is the exception raised, if any.
TryBody(file_size, content_type) ==
    LET r == PyInt(file_size) IN
    IF ~ r.ok THEN [exc |-> r.exc, warns |-> <<>>]
    ELSE IF content_type.t # "str"
    THEN [exc |-> "AttributeError", warns |-> <<>>]
    ELSE
        LET odd == /\ ~ startswith(content_type.s, s_textP)
                   /\ ~ startswith(content_type.s, s_appP)
            big == r.n > LargeFileThreshold
        IN [exc   |-> "",
            warns |-> (IF odd THEN <<Line("WARNING", "unexpected_content_type")>>
                       ELSE <<>>)
                      \o (IF big THEN <<Line("WARNING", "large_file")>>
                          ELSE <<>>)]

RequestExceptions == {"HTTPError", "Timeout", "ConnectionError"}

\* The except clauses, in order: RequestException, ValueError, Exception
ExceptClause(exc) ==
    IF exc \in RequestExceptions THEN Line("ERROR", "delivery_error")
    ELSE IF exc = "ValueError" THEN Line("ERROR", "parse_error")
    ELSE Line("ERROR", "unexpected_error")

\* A sender that drops a request some invocation has already made.
requests_post_dedup(i, req) ==
    IF \E j \in Inv \ {i} : posts[j] # <<>> /\ posts[j][1] = req
    THEN posts
    ELSE [posts EXCEPT ![i] = Append(@, req)]

\* requests.post(url, headers=..., params=..., data=...)
requests_post(i, req) == [posts EXCEPT ![i] = Append(@, req)]

-----------------------------------------------------------------------------
\* Operations

Init ==
    /\ WEBHOOK_SECRET_TOKEN \in TokenValues
    /\ pc          = [i \in Inv |-> "idle"]
    /\ cloud_event = [i \in Inv |-> NoEvent]
    /\ log         = [i \in Inv |-> <<>>]
    /\ posts       = [i \in Inv |-> <<>>]
    /\ response    = [i \in Inv |-> NoResponse]

\* The runtime calls the handler with envelope e; the handler reads
\* cloud_event.data and subscripts "id", "type" and "time".  A subscript
\* of an attribute the envelope does not carry raises KeyError, outside
\* the try block.
Invoke(i, e) ==
    /\ pc[i] = "idle"
    /\ cloud_event' = [cloud_event EXCEPT ![i] = e]
    /\ pc' = [pc EXCEPT ![i] =
                IF e.id = Missing \/ e.type = Missing \/ e.time = Missing
                THEN "raised" ELSE "validate"]
    /\ UNCHANGED <<WEBHOOK_SECRET_TOKEN, log, posts, response>>

\* The two guards on the data body.
Validate(i) ==
    /\ pc[i] = "validate"
    /\ LET data == cloud_event[i].data IN
       IF InvalidData(data)
       THEN /\ log' = [log EXCEPT ![i] = Append(@, Line("ERROR", "invalid_data"))]
            /\ pc' = [pc EXCEPT ![i] = "returned"]
       ELSE IF MissingEssential(data)
       THEN /\ log' = [log EXCEPT ![i] =
                          Append(@, Line("ERROR", "missing_metadata"))]
            /\ pc' = [pc EXCEPT ![i] = "returned"]
       ELSE /\ log' = log
            /\ pc' = [pc EXCEPT ![i] = "forward"]
    /\ UNCHANGED <<WEBHOOK_SECRET_TOKEN, cloud_event, posts, response>>

InfoLines ==
    << Line("INFO", "activated"), Line("INFO", "event_type"),
       Line("INFO", "processing"), Line("INFO", "details"),
       Line("INFO", "size"), Line("INFO", "content_type"),
       Line("INFO", "metageneration") >>

SendLines ==
    << Line("INFO", "extracted"), Line("INFO", "sending"),
       Line("INFO", "headers"), Line("INFO", "params") >>

\* The info lines, the payload, headers and params, and the try block up
\* to and including the call of requests.post.
Forward(i) ==
    /\ pc[i] = "forward"
    /\ LET data         == cloud_event[i].data
           bucket_name  == get(data.d, "bucket")
           file_name    == get(data.d, "name")
           file_size    == get(data.d, "size")
           content_type == get(data.d, "contentType")
           timestamp    == cloud_event[i].time
           payload      == Payload(file_name, bucket_name, file_size,
                                   content_type, timestamp)
           headers      == Headers
           params       == Params(WEBHOOK_SECRET_TOKEN)
           t            == TryBody(file_size, content_type)
           req          == [method  |-> "POST",
                            url     |-> APPS_SCRIPT_WEB_APP_URL,
                            headers |-> headers,
                            params  |-> params,
                            data    |-> json_dumps(payload)]
       IN IF t.exc # ""
          THEN /\ log' = [log EXCEPT ![i] =
                             @ \o InfoLines \o t.warns
                               \o <<ExceptClause(t.exc)>>]
               /\ pc' = [pc EXCEPT ![i] = "returned"]
               /\ posts' = posts
          ELSE /\ log' = [log EXCEPT ![i] =
                             @ \o InfoLines \o t.warns \o SendLines]
               /\ pc' = [pc EXCEPT ![i] = "awaiting"]
               /\ posts' = requests_post(i, req)
    /\ UNCHANGED <<WEBHOOK_SECRET_TOKEN, cloud_event, response>>

\* The call returns a response or raises; raise_for_status; the success
\* line or the except clause.
Respond(i, r) ==
    /\ pc[i] = "awaiting"
    /\ response' = [response EXCEPT ![i] = r]
    /\ LET exc == IF r.kind = "exc" THEN r.exc
                  ELSE IF raise_for_status(r.status) THEN "HTTPError"
                  ELSE ""
       IN log' = [log EXCEPT ![i] =
                     Append(@, IF exc # "" THEN ExceptClause(exc)
                               ELSE Line("INFO", "success"))]
    /\ pc' = [pc EXCEPT ![i] = "returned"]
    /\ UNCHANGED <<WEBHOOK_SECRET_TOKEN, cloud_event, posts>>

\* One delivery at a time, any envelope, any webhook behaviour.
Next ==
    \/ /\ \A j \in Inv : pc[j] = "idle"
       /\ \E i \in Inv, e \in Envelopes : Invoke(i, e)
    \/ \E i \in Inv : Validate(i)
    \/ \E i \in Inv : Forward(i)
    \/ \E i \in Inv, r \in Responses : Respond(i, r)

Spec == Init /\ [][Next]_vars

\* Several deliveries in flight at once.
NextConcurrent ==
    \/ \E i \in Inv, e \in SomeEnvelopes : Invoke(i, e)
    \/ \E i \in Inv : Validate(i)
    \/ \E i \in Inv : Forward(i)
    \/ \E i \in Inv, r \in SomeResponses : Respond(i, r)

SpecConcurrent == Init /\ [][NextConcurrent]_vars

-----------------------------------------------------------------------------
\* Vocabulary of the properties

Terminal(i)   == pc[i] \in {"returned", "raised"}
CallMade(i)   == pc[i] \in {"awaiting", "returned"}
Logged(i, m)  == \E k \in 1..Len(log[i]) : log[i][k].msg = m
ErrorCount(i) ==
    Cardinality({ k \in 1..Len(log[i]) : log[i][k].level = "ERROR" })
Field(i, k)   == cloud_event[i].data.d[k]

HasAttributes(e) == e.id # Missing /\ e.type # Missing /\ e.time # Missing

\* a value that is there and is neither the empty string nor zero
NonEmpty(v) ==
    \/ v.t = "str" /\ Len(v.s) > 0
    \/ v.t = "int" /\ v.n # 0

\* the data body is absent, empty, not a mapping, or lacks one of the four
BadData(e) ==
    \/ e.data.kind # "dict"
    \/ \E k \in {"bucket", "name", "size", "contentType"} :
          ~ NonEmpty(e.data.d[k])

\* a string with a character that is no digit, blank or sign
NonNumericStr(v) ==
    /\ v.t = "str"
    /\ \E k \in 1..Len(v.s) : ~ IsDigit(v.s[k]) /\ v.s[k] \notin {" ", "+", "-"}

\* an integer, or a string of digits (blanks and a sign around them)
Numeric(v) ==
    \/ v.t = "int"
    \/ /\ v.t = "str"
       /\ \E k \in 1..Len(v.s) : IsDigit(v.s[k])
       /\ ~ NonNumericStr(v)

\* all attributes, the four fields non-empty, the three names strings,
\* the size convertible
WellFormed(e) ==
    /\ HasAttributes(e)
    /\ ~ BadData(e)
    /\ \A k \in {"bucket", "name", "contentType"} : e.data.d[k].t = "str"
    /\ Numeric(e.data.d["size"])

JString(s) == [json |-> "string", s |-> s, n |-> 0]

\* the JSON body the webhook is to receive for envelope e
ExpectedBody(e) ==
    << [key |-> "fileName",    value |-> JString(e.data.d["name"].s)],
       [key |-> "bucketName",  value |-> JString(e.data.d["bucket"].s)],
       [key |-> "fileSize",
        value |-> IF e.data.d["size"].t = "str"
                  THEN JString(e.data.d["size"].s)
                  ELSE [json |-> "number", s |-> <<>>,
                        n |-> e.data.d["size"].n]],
       [key |-> "contentType", value |-> JString(e.data.d["contentType"].s)],
       [key |-> "timeCreated", value |-> JString(e.time.s)],
       [key |-> "source",      value |-> JString(<<"CloudStorage">>)] >>

ExpectedRequest(e) ==
    [method  |-> "POST",
     url     |-> APPS_SCRIPT_WEB_APP_URL,
     headers |-> { <<"Content-Type", "application/json">> },
     params  |-> { <<"token", WEBHOOK_SECRET_TOKEN>> },
     data    |-> ExpectedBody(e)]

-----------------------------------------------------------------------------
\* C1: every finished invocation whose envelope has a data body that is
\* absent, empty, not a mapping, or without a non-empty bucket, name, size
\* or contentType has made no outbound call, has logged exactly one error
\* line and has returned.
C1_ValidationGate ==
    \A i \in Inv :
        (Terminal(i) /\ BadData(cloud_event[i]))
            => /\ posts[i] = <<>>
               /\ ErrorCount(i) = 1
               /\ pc[i] = "returned"

\* C2: once the call has been made for a well-formed envelope, the
\* invocation has issued exactly one POST: to the fixed URL, with the
\* token as only query parameter, the JSON content type as only header
\* and the six-member body in which fileSize is the size as received.
C2_OnePostForWellFormed ==
    \A i \in Inv :
        (pc[i] # "idle" /\ WellFormed(cloud_event[i]))
            => /\ pc[i] \in {"validate", "forward", "awaiting", "returned"}
               /\ CallMade(i) <=> posts[i] # <<>>
               /\ pc[i] = "returned" => CallMade(i) /\ posts[i] # <<>>
               /\ posts[i] # <<>> =>
                      posts[i] = <<ExpectedRequest(cloud_event[i])>>

C2_Witness ==
    \E i \in Inv :
        /\ pc[i] = "returned"
        /\ WellFormed(cloud_event[i])
        /\ Field(i, "size") = StrV(s_1024)
        /\ Len(posts[i]) = 1
        /\ posts[i][1].data[3].value = JString(s_1024)

\* C3: an invocation whose envelope passed the presence checks and whose
\* size is a non-numeric string never makes the outbound call; when it
\* has returned it has logged the size-conversion error, and neither the
\* delivery error nor the unexpected error.
C3_NonNumericSizeAborts ==
    \A i \in Inv :
        (/\ HasAttributes(cloud_event[i])
         /\ ~ BadData(cloud_event[i])
         /\ NonNumericStr(Field(i, "size")))
            => /\ pc[i] # "awaiting"
               /\ posts[i] = <<>>
               /\ pc[i] = "returned" =>
                      /\ Logged(i, "parse_error")
                      /\ ~ Logged(i, "delivery_error")
                      /\ ~ Logged(i, "unexpected_error")
                      /\ ~ Logged(i, "sending")
                      /\ ErrorCount(i) = 1

C3_Witness ==
    \E i \in Inv :
        /\ pc[i] = "returned"
        /\ HasAttributes(cloud_event[i])
        /\ ~ BadData(cloud_event[i])
        /\ Field(i, "size") = StrV(s_abc)
        /\ Logged(i, "parse_error")
        /\ posts[i] = <<>>

\* C4 as stated: every returned status outside 200..299 gives a delivery
\* error and no success line.
C4_Non2xxIsFailure ==
    \A i \in Inv :
        (pc[i] = "returned" /\ response[i].kind = "status"
           /\ response[i].status \notin 200..299)
            => Logged(i, "delivery_error") /\ ~ Logged(i, "success")

\* C4, amended: a returned status in 400..599 gives one delivery error and
\* no success line; every other returned status (1xx and 3xx as well as
\* 2xx) gives the success line and no error.
C4_ErrorStatusIsFailure ==
    \A i \in Inv :
        (pc[i] = "returned" /\ response[i].kind = "status")
            => IF response[i].status \in 400..599
               THEN /\ Logged(i, "delivery_error")
                    /\ ~ Logged(i, "success")
                    /\ ErrorCount(i) = 1
               ELSE /\ Logged(i, "success")
                    /\ ErrorCount(i) = 0

C4_Witness ==
    \E i \in Inv :
        /\ pc[i] = "returned"
        /\ response[i] = Status(304)
        /\ Logged(i, "success")
        /\ ~ Logged(i, "delivery_error")

\* C5: an invocation whose envelope lacks id, type or time does not
\* raise; it runs the validation of the data body and, for well-formed
\* data, makes the call.
C5_MissingAttributeTolerated ==
    \A i \in Inv :
        (pc[i] # "idle" /\ ~ HasAttributes(cloud_event[i]))
            => /\ pc[i] # "raised"
               /\ Terminal(i) =>
                      IF BadData(cloud_event[i])
                      THEN ErrorCount(i) = 1 /\ posts[i] = <<>>
                      ELSE Numeric(Field(i, "size"))
                             /\ Field(i, "contentType").t = "str"
                           => Len(posts[i]) = 1

\* C6: a failed call (status 500, timeout, connection error) leaves
\* exactly one delivery error, one POST and a normal return; and no
\* invocation, whatever its failure, ends by raising.
C6_FailuresLoggedNotRaised ==
    \A i \in Inv :
        /\ pc[i] # "raised"
        /\ (pc[i] = "returned"
              /\ \/ response[i].kind = "exc"
                 \/ response[i].kind = "status" /\ response[i].status >= 500)
             => /\ Len(posts[i]) = 1
                /\ ErrorCount(i) = 1
                /\ Logged(i, "delivery_error")
                /\ ~ Logged(i, "success")

Aborted(i) ==
    posts[i] = <<>> /\ ErrorCount(i) = 1 /\ ~ Logged(i, "success")
SendSucceeded(i) ==
    Len(posts[i]) = 1 /\ Logged(i, "success") /\ ErrorCount(i) = 0
SendFailed(i) ==
    Len(posts[i]) = 1 /\ ErrorCount(i) = 1 /\ ~ Logged(i, "success")

\* C7: no invocation ever has more than one POST, and every finished
\* invocation is in exactly one of aborted-before-send, send-succeeded,
\* send-failed.
C7_ThreeOutcomes ==
    \A i \in Inv :
        /\ Len(posts[i]) <= 1
        /\ Terminal(i) =>
               Cardinality({ o \in {"aborted", "succeeded", "failed"} :
                               \/ o = "aborted"   /\ Aborted(i)
                               \/ o = "succeeded" /\ SendSucceeded(i)
                               \/ o = "failed"    /\ SendFailed(i) }) = 1

\* C8: an invocation that passed validation with a convertible size and a
\* string content type makes the one POST with the body built from the
\* received fields, whatever the content type's prefix and however large
\* the size; an unrecognised prefix and a size above 10485760 each add
\* exactly their warning line.
C8_AdvisoryChecksDoNotBlock ==
    \A i \in Inv :
        (CallMade(i) /\ WellFormed(cloud_event[i]))
            => /\ Len(posts[i]) = 1
               /\ posts[i][1].data = ExpectedBody(cloud_event[i])
               /\ ErrorCount(i) = 0 \/ Logged(i, "delivery_error")
               /\ Logged(i, "unexpected_content_type")
                    <=> /\ ~ startswith(Field(i, "contentType").s, s_textP)
                        /\ ~ startswith(Field(i, "contentType").s, s_appP)
               /\ Logged(i, "large_file")
                    <=> PyInt(Field(i, "size")).n > 10485760

C8_Witness ==
    \E i \in Inv :
        /\ pc[i] = "returned"
        /\ Field(i, "contentType") = StrV(s_png)
        /\ Field(i, "size") = StrV(s_11M)
        /\ Logged(i, "unexpected_content_type")
        /\ Logged(i, "large_file")
        /\ Logged(i, "success")
        /\ Len(posts[i]) = 1

\* two invocations that got the same envelope and, where the call was
\* made, the same answer
SameInputs(i, j) ==
    /\ cloud_event[i] = cloud_event[j]
    /\ pc[i] = pc[j]
    /\ response[i] = response[j]

IndependentOutcomes ==
    \A i, j \in Inv :
        (pc[i] # "idle" /\ SameInputs(i, j))
            => /\ posts[i] = posts[j]
               /\ log[i] = log[j]
               /\ (CallMade(i) /\ WellFormed(cloud_event[i]))
                     => posts[i] = <<ExpectedRequest(cloud_event[i])>>

\* C9: in every step of every interleaving the token stays as it is, and
\* afterwards any two invocations with the same envelope (and the same
\* answer from the webhook) have made the same POSTs and logged the same
\* lines: a second delivery of a well-formed envelope is sent again.
C9_NoSharedState ==
    [][ /\ WEBHOOK_SECRET_TOKEN' = WEBHOOK_SECRET_TOKEN
        /\ IndependentOutcomes' ]_vars

C9_Witness ==
    \E i, j \in Inv :
        /\ i # j
        /\ cloud_event[i] = cloud_event[j]
        /\ WellFormed(cloud_event[i])
        /\ pc[i] = "returned" /\ pc[j] = "returned"
        /\ Len(posts[i]) = 1
        /\ posts[j] = posts[i]

\* C10: with the other three fields in order, an envelope whose size is
\* the integer 0 never passes validation: it is rejected with the
\* missing-metadata error and no call; with the string "0" it passes, the
\* size converts to 0 and the POST carries fileSize "0".
C10_ZeroSizeTruthiness ==
    \A i \in Inv :
        (/\ HasAttributes(cloud_event[i])
         /\ cloud_event[i].data.kind = "dict"
         /\ \A k \in {"bucket", "name", "contentType"} :
               Field(i, k).t = "str" /\ Len(Field(i, k).s) > 0)
            => /\ Field(i, "size") = IntV(0) =>
                    /\ pc[i] \in {"validate", "returned"}
                    /\ posts[i] = <<>>
                    /\ pc[i] = "returned" =>
                           log[i] = <<Line("ERROR", "missing_metadata")>>
               /\ (Field(i, "size") = StrV(s_0) /\ CallMade(i)) =>
                    /\ PyInt(Field(i, "size")) = [ok |-> TRUE, exc |-> "", n |-> 0]
                    /\ ~ Logged(i, "missing_metadata")
                    /\ Len(posts[i]) = 1
                    /\ posts[i][1].data[3] =
                           [key |-> "fileSize", value |-> JString(s_0)]

C10_Witness ==
    \E i, j \in Inv :
        /\ pc[i] = "returned" /\ pc[j] = "returned"
        /\ cloud_event[i] = Event(WellFormedData(IntV(0), StrV(s_text)))
        /\ cloud_event[j] = Event(WellFormedData(StrV(s_0), StrV(s_text)))
        /\ Logged(i, "missing_metadata") /\ posts[i] = <<>>
        /\ Len(posts[j]) = 1

====
